---------------------------- MODULE Spec2Model ----------------------------
(***************************************************************************)
(* create_directory_diagram.py: a script that draws a fixed box diagram on *)
(* a matplotlib surface, saves it to a hard-coded path and prints a        *)
(* confirmation line.  The model is the script as a state machine: one     *)
(* step per top-level statement, with draw_box unfolded into its patch     *)
(* step and one step per iteration of its loop over the text lines.        *)
(*                                                                         *)
(* Coordinates that the script computes with "/" or writes with a decimal  *)
(* point are exact rationals <<numerator, denominator>> here; the script   *)
(* computes them in binary floating point, whose rounding is left out.     *)
(* Characters outside ASCII in the script's string literals are written    *)
(* <U+XXXX>.                                                               *)
(***************************************************************************)
EXTENDS Integers, Sequences, FiniteSets, TLC

VARIABLES
  dirWritable,  \* environment: can the output path be opened for writing
  tightBox,     \* environment: the renderer's tight bounding box of the drawing,
                \* <<width, height>> in tenths of an inch, padding included
  file,         \* filesystem: <<>> or <<image>> at the output path
  run,          \* number of the current run of the script
  prev,         \* what each earlier run did: its ops, stdout, exit and file
  pc,           \* index in Program of the statement to execute next
  frame,        \* <<>> or <<activation record of draw_box>>
  bound,        \* names bound in the module namespace
  colors,       \* the dict bound to colors
  y_pos, stats_y, tech_y, features_y,   \* the layout cursors (module globals)
  fig,          \* the drawing surface
  ops,          \* the calls made on plt / ax so far, in order
  stdout,       \* lines printed
  exit          \* <<>> while running, <<status>> once the process has ended

envVars == <<dirWritable, tightBox>>
runVars == <<pc, frame, bound, colors, y_pos, stats_y, tech_y, features_y,
             fig, ops, stdout, exit>>
vars == <<dirWritable, tightBox, file, run, prev, pc, frame, bound, colors,
          y_pos, stats_y, tech_y, features_y, fig, ops, stdout, exit>>

\* Number of runs of the script in SpecRuns.
MaxRuns == 2

\* The tight bounding boxes a renderer may report (tenths of an inch): the
\* full 20 x 24 in figure, a box cropped inside it and one sticking out of it.
TightBoxes == {<<200, 240>>, <<187, 226>>, <<204, 243>>}

NL == "\n"

\* A literal, or a global plus a literal: num/den, or base + num/den.
K(num, den) == [base |-> "", num |-> num, den |-> den]
V(base, num, den) == [base |-> base, num |-> num, den |-> den]

\* The top-level statements of the script, in order (imports left out).  The
\* text of a draw_box call is its string literal cut at the newlines: the
\* newline-free runs, with NL standing where the literal has \n.
Program ==
  << [op |-> "subplots", line |-> 7, figsize |-> <<20, 24>>, dpi |-> 100],
     [op |-> "set_xlim", line |-> 8, lo |-> 0, hi |-> 100],
     [op |-> "set_ylim", line |-> 9, lo |-> 0, hi |-> 120],
     [op |-> "axis", line |-> 10, arg |-> "off"],
     [op |-> "text", line |-> 13, x |-> K(50, 1), y |-> K(118, 1), s |-> "AI Governance Navigator - Directory Structure",
     fontsize |-> 24, fontweight |-> "bold", ha |-> "center", color |-> "black", style |-> "normal"],
     [op |-> "text", line |-> 15, x |-> K(50, 1), y |-> K(115, 1), s |-> "Complete Project Architecture Overview",
     fontsize |-> 14, fontweight |-> "normal", ha |-> "center", color |-> "gray", style |-> "normal"],
     [op |-> "dict", line |-> 19, target |-> "colors", value |-> ("core" :> "#4A90E2") @@ ("qa" :> "#50E3C2") @@ ("agents" :> "#F5A623") @@ ("config" :> "#7ED321") @@ ("docs" :> "#9013FE") @@ ("db" :> "#BD10E0") @@ ("test" :> "#4A90E2")],
     [op |-> "def", line |-> 30, name |-> "draw_box"],
     [op |-> "assign", line |-> 54, target |-> "y_pos", value |-> K(105, 1)],
     [op |-> "draw_box", line |-> 57, x |-> 35, y |-> V("y_pos", 0, 1), width |-> 30, height |-> 5,
     text |-> <<"C:\\code\\AIGovNav\\">>,
     color |-> "config", fontsize |-> 12, style |-> <<>>],
     [op |-> "augsub", line |-> 58, target |-> "y_pos", k |-> 8],
     [op |-> "draw_box", line |-> 61, x |-> 5, y |-> V("y_pos", -25, 1), width |-> 28, height |-> 25,
     text |-> <<"<U+1F4C1> src/", NL, NL, "backend/", NL, "<U+2022> routes/", NL, "<U+2022> services/", NL, "<U+2022> middleware/", NL, "<U+2022> scripts/", NL, "<U+2022> data/", NL, NL, "frontend/", NL, "<U+2022> pages/", NL, "<U+2022> components/", NL, "<U+2022> contexts/", NL, "<U+2022> services/">>,
     color |-> "core", fontsize |-> 11, style |-> <<>>],
     [op |-> "draw_box", line |-> 65, x |-> 35, y |-> V("y_pos", -25, 1), width |-> 28, height |-> 25,
     text |-> <<"<U+1F4C1> qa/", NL, NL, "validators/", NL, "<U+2022> EUAIActCompliance", NL, "<U+2022> LLMGovernance", NL, "<U+2022> PrismaIntegrity", NL, NL, "categories/", NL, "<U+2022> security/", NL, "<U+2022> performance/", NL, "<U+2022> quality/", NL, "<U+2022> architecture/", NL, "<U+2022> testing/">>,
     color |-> "qa", fontsize |-> 11, style |-> <<>>],
     [op |-> "draw_box", line |-> 69, x |-> 65, y |-> V("y_pos", -25, 1), width |-> 28, height |-> 25,
     text |-> <<"<U+1F916> Agents", NL, NL, "product/", NL, "<U+2022> user-stories", NL, "<U+2022> api-specs", NL, "<U+2022> requirements", NL, NL, "engineer/", NL, "<U+2022> swarm-config", NL, NL, "designer/", NL, "<U+2022> swarm-config">>,
     color |-> "agents", fontsize |-> 11, style |-> <<>>],
     [op |-> "augsub", line |-> 72, target |-> "y_pos", k |-> 30],
     [op |-> "draw_box", line |-> 75, x |-> 5, y |-> V("y_pos", -15, 1), width |-> 28, height |-> 15,
     text |-> <<"<U+1F5C4><U+FE0F> prisma/", NL, NL, "schema.prisma", NL, "<U+2022> AISystem", NL, "<U+2022> User", NL, "<U+2022> PolicyPack", NL, "<U+2022> AuditLog", NL, "<U+2022> Document">>,
     color |-> "db", fontsize |-> 11, style |-> <<>>],
     [op |-> "draw_box", line |-> 78, x |-> 35, y |-> V("y_pos", -15, 1), width |-> 28, height |-> 15,
     text |-> <<"<U+1F9EA> tests/", NL, NL, "unit/", NL, "<U+2022> intake.test.ts", NL, "<U+2022> riskClassification.test.ts", NL, NL, "integration/", NL, "<U+2022> auth.test.ts">>,
     color |-> "test", fontsize |-> 11, style |-> <<>>],
     [op |-> "draw_box", line |-> 82, x |-> 65, y |-> V("y_pos", -15, 1), width |-> 28, height |-> 15,
     text |-> <<"<U+2699><U+FE0F> Config Files", NL, NL, "<U+2022> docker-compose.yml", NL, "<U+2022> package.json", NL, "<U+2022> tsconfig.json", NL, "<U+2022> vite.config.ts", NL, "<U+2022> vitest.config.ts", NL, "<U+2022> tailwind.config.js">>,
     color |-> "config", fontsize |-> 11, style |-> <<>>],
     [op |-> "augsub", line |-> 85, target |-> "y_pos", k |-> 20],
     [op |-> "draw_box", line |-> 88, x |-> 5, y |-> V("y_pos", -15, 1), width |-> 42, height |-> 15,
     text |-> <<"<U+1F4DA> Reference/", NL, NL, "Market Research/", NL, "<U+2022> AIGovNav Research docs", NL, "<U+2022> Images & diagrams", NL, "<U+2022> Conversion reports", NL, NL, "Reference Images", NL, "<U+2022> AI Registry.png", NL, "<U+2022> dashboard.png", NL, "<U+2022> swarm diagrams">>,
     color |-> "docs", fontsize |-> 11, style |-> <<>>],
     [op |-> "draw_box", line |-> 91, x |-> 50, y |-> V("y_pos", -15, 1), width |-> 43, height |-> 15,
     text |-> <<"<U+1F4DD> Documentation", NL, NL, "<U+2022> CLAUDE.md - AI instructions", NL, "<U+2022> QA_CALIBRATION_SUMMARY.md", NL, "<U+2022> CTO_DEMO_MATERIALS.md", NL, "<U+2022> replit-setup-guide.md", NL, "<U+2022> setup-github.md", NL, "<U+2022> start-local.md", NL, "<U+2022> swarm-orchestrator.md">>,
     color |-> "docs", fontsize |-> 11, style |-> <<>>],
     [op |-> "augsub", line |-> 94, target |-> "y_pos", k |-> 20],
     [op |-> "draw_box", line |-> 97, x |-> 5, y |-> V("y_pos", -10, 1), width |-> 28, height |-> 10,
     text |-> <<"<U+1F680> DevOps", NL, NL, ".github/workflows/", NL, "<U+2022> qa.yml", NL, NL, ".claude/", NL, "<U+2022> settings.local.json">>,
     color |-> "config", fontsize |-> 11, style |-> <<>>],
     [op |-> "assign", line |-> 101, target |-> "stats_y", value |-> V("y_pos", -10, 1)],
     [op |-> "draw_box", line |-> 102, x |-> 35, y |-> V("stats_y", 0, 1), width |-> 58, height |-> 10,
     text |-> <<>>,
     color |-> "qa", fontsize |-> 11, style |-> <<>>],
     [op |-> "text", line |-> 103, x |-> K(64, 1), y |-> V("stats_y", 7, 1), s |-> "<U+1F4CA> QA Statistics",
     fontsize |-> 12, fontweight |-> "bold", ha |-> "center", color |-> "black", style |-> "normal"],
     [op |-> "text", line |-> 104, x |-> K(45, 1), y |-> V("stats_y", 4, 1), s |-> "147+ Checkpoints",
     fontsize |-> 10, fontweight |-> "normal", ha |-> "center", color |-> "black", style |-> "normal"],
     [op |-> "text", line |-> 105, x |-> K(64, 1), y |-> V("stats_y", 4, 1), s |-> "8 Validators",
     fontsize |-> 10, fontweight |-> "normal", ha |-> "center", color |-> "black", style |-> "normal"],
     [op |-> "text", line |-> 106, x |-> K(83, 1), y |-> V("stats_y", 4, 1), s |-> "3 Swarm Agents",
     fontsize |-> 10, fontweight |-> "normal", ha |-> "center", color |-> "black", style |-> "normal"],
     [op |-> "text", line |-> 107, x |-> K(45, 1), y |-> V("stats_y", 3, 2), s |-> "27 EU AI Act",
     fontsize |-> 10, fontweight |-> "normal", ha |-> "center", color |-> "black", style |-> "normal"],
     [op |-> "text", line |-> 108, x |-> K(64, 1), y |-> V("stats_y", 3, 2), s |-> "23 LLM Gov",
     fontsize |-> 10, fontweight |-> "normal", ha |-> "center", color |-> "black", style |-> "normal"],
     [op |-> "text", line |-> 109, x |-> K(83, 1), y |-> V("stats_y", 3, 2), s |-> "14 Prisma",
     fontsize |-> 10, fontweight |-> "normal", ha |-> "center", color |-> "black", style |-> "normal"],
     [op |-> "assign", line |-> 112, target |-> "tech_y", value |-> V("y_pos", -25, 1)],
     [op |-> "draw_box", line |-> 113, x |-> 5, y |-> V("tech_y", 0, 1), width |-> 88, height |-> 12,
     text |-> <<>>,
     color |-> "core", fontsize |-> 11, style |-> <<>>],
     [op |-> "text", line |-> 114, x |-> K(49, 1), y |-> V("tech_y", 10, 1), s |-> "<U+1F4BB> Technology Stack",
     fontsize |-> 12, fontweight |-> "bold", ha |-> "center", color |-> "black", style |-> "normal"],
     [op |-> "text", line |-> 117, x |-> K(20, 1), y |-> V("tech_y", 7, 1), s |-> "Frontend:",
     fontsize |-> 10, fontweight |-> "bold", ha |-> "left", color |-> "black", style |-> "normal"],
     [op |-> "text", line |-> 118, x |-> K(20, 1), y |-> V("tech_y", 5, 1), s |-> "<U+2022> React 18 + TypeScript",
     fontsize |-> 9, fontweight |-> "normal", ha |-> "left", color |-> "black", style |-> "normal"],
     [op |-> "text", line |-> 119, x |-> K(20, 1), y |-> V("tech_y", 7, 2), s |-> "<U+2022> Vite + TailwindCSS",
     fontsize |-> 9, fontweight |-> "normal", ha |-> "left", color |-> "black", style |-> "normal"],
     [op |-> "text", line |-> 120, x |-> K(20, 1), y |-> V("tech_y", 2, 1), s |-> "<U+2022> React Router + Zustand",
     fontsize |-> 9, fontweight |-> "normal", ha |-> "left", color |-> "black", style |-> "normal"],
     [op |-> "text", line |-> 123, x |-> K(49, 1), y |-> V("tech_y", 7, 1), s |-> "Backend:",
     fontsize |-> 10, fontweight |-> "bold", ha |-> "left", color |-> "black", style |-> "normal"],
     [op |-> "text", line |-> 124, x |-> K(49, 1), y |-> V("tech_y", 5, 1), s |-> "<U+2022> Node.js + Express",
     fontsize |-> 9, fontweight |-> "normal", ha |-> "left", color |-> "black", style |-> "normal"],
     [op |-> "text", line |-> 125, x |-> K(49, 1), y |-> V("tech_y", 7, 2), s |-> "<U+2022> Prisma + PostgreSQL",
     fontsize |-> 9, fontweight |-> "normal", ha |-> "left", color |-> "black", style |-> "normal"],
     [op |-> "text", line |-> 126, x |-> K(49, 1), y |-> V("tech_y", 2, 1), s |-> "<U+2022> Supabase Auth + JWT",
     fontsize |-> 9, fontweight |-> "normal", ha |-> "left", color |-> "black", style |-> "normal"],
     [op |-> "text", line |-> 129, x |-> K(78, 1), y |-> V("tech_y", 7, 1), s |-> "DevOps:",
     fontsize |-> 10, fontweight |-> "bold", ha |-> "left", color |-> "black", style |-> "normal"],
     [op |-> "text", line |-> 130, x |-> K(78, 1), y |-> V("tech_y", 5, 1), s |-> "<U+2022> Docker + GitHub Actions",
     fontsize |-> 9, fontweight |-> "normal", ha |-> "left", color |-> "black", style |-> "normal"],
     [op |-> "text", line |-> 131, x |-> K(78, 1), y |-> V("tech_y", 7, 2), s |-> "<U+2022> Vitest + ESLint",
     fontsize |-> 9, fontweight |-> "normal", ha |-> "left", color |-> "black", style |-> "normal"],
     [op |-> "text", line |-> 132, x |-> K(78, 1), y |-> V("tech_y", 2, 1), s |-> "<U+2022> Context7 Integration",
     fontsize |-> 9, fontweight |-> "normal", ha |-> "left", color |-> "black", style |-> "normal"],
     [op |-> "assign", line |-> 135, target |-> "features_y", value |-> V("tech_y", -8, 1)],
     [op |-> "draw_box", line |-> 136, x |-> 5, y |-> V("features_y", 0, 1), width |-> 88, height |-> 6,
     text |-> <<>>,
     color |-> "agents", fontsize |-> 11, style |-> <<>>],
     [op |-> "text", line |-> 137, x |-> K(49, 1), y |-> V("features_y", 9, 2), s |-> "<U+1F3AF> Key Features",
     fontsize |-> 12, fontweight |-> "bold", ha |-> "center", color |-> "black", style |-> "normal"],
     [op |-> "text", line |-> 138, x |-> K(25, 1), y |-> V("features_y", 2, 1), s |-> "<U+2713> EU AI Act Compliance Engine",
     fontsize |-> 9, fontweight |-> "normal", ha |-> "left", color |-> "black", style |-> "normal"],
     [op |-> "text", line |-> 139, x |-> K(25, 1), y |-> V("features_y", 1, 2), s |-> "<U+2713> Real-time LLM/Prompt Monitoring",
     fontsize |-> 9, fontweight |-> "normal", ha |-> "left", color |-> "black", style |-> "normal"],
     [op |-> "text", line |-> 140, x |-> K(68, 1), y |-> V("features_y", 2, 1), s |-> "<U+2713> Multi-Agent Swarm Architecture",
     fontsize |-> 9, fontweight |-> "normal", ha |-> "left", color |-> "black", style |-> "normal"],
     [op |-> "text", line |-> 141, x |-> K(68, 1), y |-> V("features_y", 1, 2), s |-> "<U+2713> Automated Risk Classification",
     fontsize |-> 9, fontweight |-> "normal", ha |-> "left", color |-> "black", style |-> "normal"],
     [op |-> "plot", line |-> 145, xs |-> <<19, 35>>, ys |-> <<V("y_pos", 10, 1), V("y_pos", 10, 1)>>, fmt |-> "k--"],
     [op |-> "plot", line |-> 147, xs |-> <<49, 49>>, ys |-> <<V("y_pos", 5, 1), V("y_pos", -5, 1)>>, fmt |-> "k--"],
     [op |-> "plot", line |-> 149, xs |-> <<65, 33>>, ys |-> <<V("y_pos", 10, 1), V("y_pos", 10, 1)>>, fmt |-> "k--"],
     [op |-> "text", line |-> 152, x |-> K(50, 1), y |-> K(2, 1), s |-> "AI Governance Navigator - Enterprise-grade AI Governance Platform",
     fontsize |-> 10, fontweight |-> "normal", ha |-> "center", color |-> "gray", style |-> "italic"],
     [op |-> "text", line |-> 154, x |-> K(50, 1), y |-> K(1, 2), s |-> "Compliant with EU AI Act | Real-time Monitoring | Automated Documentation",
     fontsize |-> 9, fontweight |-> "normal", ha |-> "center", color |-> "gray", style |-> "normal"],
     [op |-> "tight_layout", line |-> 157],
     [op |-> "savefig", line |-> 158, path |-> "C:\\code\\AIGovNav\\Reference\\directory_structure.png", dpi |-> <<150>>, bbox_inches |-> "tight", facecolor |-> "white", edgecolor |-> "none"],
     [op |-> "close", line |-> 160],
     [op |-> "print", line |-> 162, s |-> "Directory structure diagram saved to: C:\\code\\AIGovNav\\Reference\\directory_structure.png"] >>

-----------------------------------------------------------------------------
\* Exact rational arithmetic on <<num, den>>, den > 0.
RatAdd(a, b) == <<a[1] * b[2] + b[1] * a[2], a[2] * b[2]>>
RatSub(a, b) == <<a[1] * b[2] - b[1] * a[2], a[2] * b[2]>>
RatMulInt(k, a) == <<k * a[1], a[2]>>
RatDivInt(n, k) == <<n, k>>

Global(name) ==
  CASE name = "y_pos"      -> y_pos
    [] name = "stats_y"    -> stats_y
    [] name = "tech_y"     -> tech_y
    [] name = "features_y" -> features_y

\* The value of an argument expression, as a rational and (den = 1) as an integer.
Eval(e) == IF e.base = "" THEN <<e.num, e.den>>
           ELSE RatAdd(<<Global(e.base), 1>>, <<e.num, e.den>>)
EvalInt(e) == IF e.base = "" THEN e.num ELSE Global(e.base) + e.num

\* text.split('\n'): the lines of a text, each the concatenation of the tokens
\* between two newlines; a text with k newlines has k + 1 lines, empty ones kept.
RECURSIVE SplitAcc(_, _, _, _)
SplitAcc(toks, k, acc, cur) ==
  IF k > Len(toks) THEN Append(acc, cur)
  ELSE IF toks[k] = NL THEN SplitAcc(toks, k + 1, Append(acc, cur), "")
  ELSE SplitAcc(toks, k + 1, acc, cur \o toks[k])
Split(toks) == SplitAcc(toks, 1, <<>>, "")

\* Mutant of DefaultStyle: the parameter defaults to the sharp rectangle.
DefaultStyleSquare == "square"

\* draw_box: the default of its style parameter, and the patch its branch builds.
DefaultStyle == "round"
PatchKind(style) == IF style = "round" THEN "FancyBboxPatch" ELSE "Rectangle"

\* Mutant of LineHeight: the height is divided by the number of lines, with
\* no margin below the last line.
LineHeightNoMargin(height, lines) == RatDivInt(height, Len(lines))

\* draw_box: line_height = height / (len(lines) + 1)
LineHeight(height, lines) == RatDivInt(height, Len(lines) + 1)
\* draw_box: y_pos = y + height - (i + 1) * line_height   (its local y_pos)
LineY(y, height, i, line_height) ==
  RatSub(<<y + height, 1>>, RatMulInt(i + 1, line_height))
\* draw_box: x + width/2
LineX(x, width) == RatAdd(<<x, 1>>, <<width, 2>>)
LineWeight(i) == IF i = 0 THEN "bold" ELSE "normal"
LineSize(i, fontsize) == IF i = 0 THEN fontsize ELSE fontsize - 1

\* Mutant of AugSub: the cursor is moved up (y_pos += k).
AugAdd(v, k) == v + k

\* y_pos -= k
AugSub(v, k) == v - k

\* Mutant of ImageSize: the dpi and bbox_inches arguments are ignored, the
\* image is the whole figure at the figure's own dpi.
ImageSizeAtFigureDpi(f, args, tight) == <<f.dpi * f.figsize[1], f.dpi * f.figsize[2]>>

\* savefig: the pixel size of the image.  The dpi argument overrides the
\* figure's dpi; bbox_inches='tight' crops the image to the renderer's tight
\* bounding box instead of the figure size.
ImageSize(f, args, tight) ==
  LET d   == IF args.dpi = <<>> THEN f.dpi ELSE args.dpi[1]
      box == IF args.bbox_inches = "tight" THEN tight
             ELSE <<10 * f.figsize[1], 10 * f.figsize[2]>>
  IN  <<(d * box[1]) \div 10, (d * box[2]) \div 10>>

\* Mutant of SaveSucceeds: the path is opened for exclusive creation, so the
\* save fails when a file is already there.
SaveSucceedsIfAbsent == dirWritable /\ file = <<>>

\* savefig opens the path for writing, replacing a file already there.
SaveSucceeds == dirWritable

NoFigure == [state |-> "none", figsize |-> <<0, 0>>, dpi |-> 0,
             xlim |-> <<0, 1>>, ylim |-> <<0, 1>>, axis |-> "on"]

-----------------------------------------------------------------------------
Stmt == Program[pc]
Running == exit = <<>> /\ pc <= Len(Program)
At(kind) == Running /\ frame = <<>> /\ Stmt.op = kind
Call(name, args) == [op |-> name, line |-> Stmt.line, call |-> 0, args |-> args]

StartOfRun ==
  /\ pc = 1
  /\ frame = <<>>
  /\ bound = {}
  /\ colors = <<>>
  /\ y_pos = 0 /\ stats_y = 0 /\ tech_y = 0 /\ features_y = 0
  /\ fig = NoFigure
  /\ ops = <<>>
  /\ stdout = <<>>
  /\ exit = <<>>

Init ==
  /\ dirWritable \in BOOLEAN
  /\ tightBox \in TightBoxes
  /\ file = <<>>
  /\ run = 1
  /\ prev = <<>>
  /\ StartOfRun

\* fig, ax = plt.subplots(figsize=(20, 24), dpi=100)
Subplots ==
  /\ At("subplots")
  /\ fig' = [NoFigure EXCEPT !.state = "open", !.figsize = Stmt.figsize,
                             !.dpi = Stmt.dpi]
  /\ bound' = bound \cup {"fig", "ax"}
  /\ ops' = Append(ops, Call("subplots", [figsize |-> Stmt.figsize, dpi |-> Stmt.dpi]))
  /\ pc' = pc + 1
  /\ UNCHANGED <<envVars, file, run, prev, frame, colors, y_pos, stats_y,
                 tech_y, features_y, stdout, exit>>

\* ax.set_xlim(0, 100) / ax.set_ylim(0, 120)
SetLim ==
  /\ At("set_xlim") \/ At("set_ylim")
  /\ fig' = IF Stmt.op = "set_xlim" THEN [fig EXCEPT !.xlim = <<Stmt.lo, Stmt.hi>>]
            ELSE [fig EXCEPT !.ylim = <<Stmt.lo, Stmt.hi>>]
  /\ ops' = Append(ops, Call(Stmt.op, [lo |-> Stmt.lo, hi |-> Stmt.hi]))
  /\ pc' = pc + 1
  /\ UNCHANGED <<envVars, file, run, prev, frame, bound, colors, y_pos, stats_y,
                 tech_y, features_y, stdout, exit>>

\* ax.axis('off')
AxisOff ==
  /\ At("axis")
  /\ fig' = [fig EXCEPT !.axis = Stmt.arg]
  /\ ops' = Append(ops, Call("axis", [arg |-> Stmt.arg]))
  /\ pc' = pc + 1
  /\ UNCHANGED <<envVars, file, run, prev, frame, bound, colors, y_pos, stats_y,
                 tech_y, features_y, stdout, exit>>

\* ax.text(x, y, s, ...) at the top level
Text ==
  /\ At("text")
  /\ ops' = Append(ops, Call("text",
              [x |-> Eval(Stmt.x), y |-> Eval(Stmt.y), s |-> Stmt.s,
               fontsize |-> Stmt.fontsize, fontweight |-> Stmt.fontweight,
               ha |-> Stmt.ha, va |-> "baseline", color |-> Stmt.color,
               style |-> Stmt.style]))
  /\ pc' = pc + 1
  /\ UNCHANGED <<envVars, file, run, prev, frame, bound, colors, y_pos, stats_y,
                 tech_y, features_y, fig, stdout, exit>>

\* colors = {...}
BindColors ==
  /\ At("dict")
  /\ colors' = Stmt.value
  /\ bound' = bound \cup {Stmt.target}
  /\ pc' = pc + 1
  /\ UNCHANGED <<envVars, file, run, prev, frame, y_pos, stats_y, tech_y,
                 features_y, fig, ops, stdout, exit>>

\* def draw_box(...): binds the name
DefDrawBox ==
  /\ At("def")
  /\ bound' = bound \cup {Stmt.name}
  /\ pc' = pc + 1
  /\ UNCHANGED <<envVars, file, run, prev, frame, colors, y_pos, stats_y, tech_y,
                 features_y, fig, ops, stdout, exit>>

\* The module globals after binding name to v.
Bind(name, v) ==
  /\ y_pos'      = IF name = "y_pos"      THEN v ELSE y_pos
  /\ stats_y'    = IF name = "stats_y"    THEN v ELSE stats_y
  /\ tech_y'     = IF name = "tech_y"     THEN v ELSE tech_y
  /\ features_y' = IF name = "features_y" THEN v ELSE features_y
  /\ bound' = bound \cup {name}

\* y_pos = 105, stats_y = y_pos - 10, tech_y = y_pos - 25, features_y = tech_y - 8
Assign ==
  /\ At("assign")
  /\ Bind(Stmt.target, EvalInt(Stmt.value))
  /\ pc' = pc + 1
  /\ UNCHANGED <<envVars, file, run, prev, frame, colors, fig, ops, stdout, exit>>

\* y_pos -= k
AugAssign ==
  /\ At("augsub")
  /\ Bind(Stmt.target, AugSub(Global(Stmt.target), Stmt.k))
  /\ pc' = pc + 1
  /\ UNCHANGED <<envVars, file, run, prev, frame, colors, fig, ops, stdout, exit>>

\* draw_box(...) up to its loop: binds the parameters, builds the patch of the
\* style's branch, ax.add_patch(box), lines = text.split('\n'), line_height.
DrawBoxCall ==
  /\ At("draw_box")
  /\ LET style == IF Stmt.style = <<>> THEN DefaultStyle ELSE Stmt.style[1]
         y     == EvalInt(Stmt.y)
         lines == Split(Stmt.text)
     IN  /\ frame' = <<[call |-> Stmt.line, x |-> Stmt.x, y |-> y,
                        width |-> Stmt.width, height |-> Stmt.height,
                        fontsize |-> Stmt.fontsize, style |-> style,
                        lines |-> lines,
                        line_height |-> LineHeight(Stmt.height, lines),
                        i |-> 0]>>
         /\ ops' = Append(ops,
              [op |-> "add_patch", line |-> 40, call |-> Stmt.line,
               args |-> [kind |-> PatchKind(style), x |-> Stmt.x, y |-> y,
                         width |-> Stmt.width, height |-> Stmt.height,
                         facecolor |-> colors[Stmt.color],
                         edgecolor |-> "black", alpha |-> <<3, 10>>,
                         linewidth |-> <<3, 2>>]])
  /\ UNCHANGED <<envVars, file, run, prev, pc, bound, colors, y_pos, stats_y,
                 tech_y, features_y, fig, stdout, exit>>

\* One iteration of draw_box's loop: for i, line in enumerate(lines).  Its
\* y_pos is a local of draw_box; the module's y_pos is not touched.
DrawBoxLine ==
  /\ frame # <<>>
  /\ LET f == frame[1]
     IN  /\ f.i < Len(f.lines)
         /\ ops' = Append(ops,
              [op |-> "text", line |-> 49, call |-> f.call,
               args |-> [x |-> LineX(f.x, f.width),
                         y |-> LineY(f.y, f.height, f.i, f.line_height),
                         s |-> f.lines[f.i + 1],
                         fontsize |-> LineSize(f.i, f.fontsize),
                         fontweight |-> LineWeight(f.i),
                         ha |-> "center", va |-> "center", color |-> "black",
                         style |-> "normal"]])
         /\ frame' = <<[f EXCEPT !.i = f.i + 1]>>
  /\ UNCHANGED <<envVars, file, run, prev, pc, bound, colors, y_pos, stats_y,
                 tech_y, features_y, fig, stdout, exit>>

\* draw_box returns when its loop is exhausted.
DrawBoxReturn ==
  /\ frame # <<>>
  /\ frame[1].i = Len(frame[1].lines)
  /\ frame' = <<>>
  /\ pc' = pc + 1
  /\ UNCHANGED <<envVars, file, run, prev, bound, colors, y_pos, stats_y,
                 tech_y, features_y, fig, ops, stdout, exit>>

\* ax.plot([x1, x2], [y1, y2], 'k--', alpha=0.3, linewidth=1)
Plot ==
  /\ At("plot")
  /\ ops' = Append(ops, Call("plot",
              [xs |-> Stmt.xs,
               ys |-> <<EvalInt(Stmt.ys[1]), EvalInt(Stmt.ys[2])>>,
               fmt |-> Stmt.fmt]))
  /\ pc' = pc + 1
  /\ UNCHANGED <<envVars, file, run, prev, frame, bound, colors, y_pos, stats_y,
                 tech_y, features_y, fig, stdout, exit>>

\* plt.tight_layout()
TightLayout ==
  /\ At("tight_layout")
  /\ ops' = Append(ops, Call("tight_layout", <<>>))
  /\ pc' = pc + 1
  /\ UNCHANGED <<envVars, file, run, prev, frame, bound, colors, y_pos, stats_y,
                 tech_y, features_y, fig, stdout, exit>>

SavefigArgs == [path |-> Stmt.path, dpi |-> Stmt.dpi,
                bbox_inches |-> Stmt.bbox_inches,
                facecolor |-> Stmt.facecolor, edgecolor |-> Stmt.edgecolor]

SaveCall(result) == [op |-> "savefig", line |-> Stmt.line, call |-> 0,
                     args |-> SavefigArgs, result |-> result]

\* plt.savefig(path, dpi=150, bbox_inches='tight', ...) writes the image
SavefigOk ==
  /\ At("savefig")
  /\ SaveSucceeds
  /\ file' = <<[path |-> Stmt.path, size |-> ImageSize(fig, SavefigArgs, tightBox),
                facecolor |-> Stmt.facecolor]>>
  /\ ops' = Append(ops, SaveCall("ok"))
  /\ pc' = pc + 1
  /\ UNCHANGED <<envVars, run, prev, frame, bound, colors, y_pos, stats_y,
                 tech_y, features_y, fig, stdout, exit>>

\* Mutant of SavefigFail: the error is caught and dropped, the script goes on.
SavefigFailSwallowed ==
  /\ At("savefig")
  /\ ~SaveSucceeds
  /\ ops' = Append(ops, SaveCall("OSError"))
  /\ pc' = pc + 1
  /\ UNCHANGED <<envVars, file, run, prev, frame, bound, colors, y_pos,
                 stats_y, tech_y, features_y, fig, stdout, exit>>

\* plt.savefig raises (the path cannot be opened): nothing catches it, the
\* interpreter prints the traceback and the process ends with status 1.
SavefigFail ==
  /\ At("savefig")
  /\ ~SaveSucceeds
  /\ ops' = Append(ops, SaveCall("OSError"))
  /\ exit' = <<1>>
  /\ UNCHANGED <<envVars, file, run, prev, pc, frame, bound, colors, y_pos,
                 stats_y, tech_y, features_y, fig, stdout>>

\* Mutant of Close: the statement does nothing, the surface stays open.
CloseSkipped ==
  /\ At("close")
  /\ pc' = pc + 1
  /\ UNCHANGED <<envVars, file, run, prev, frame, bound, colors, y_pos, stats_y,
                 tech_y, features_y, fig, ops, stdout, exit>>

\* plt.close()
Close ==
  /\ At("close")
  /\ fig' = [fig EXCEPT !.state = "closed"]
  /\ ops' = Append(ops, Call("close", <<>>))
  /\ pc' = pc + 1
  /\ UNCHANGED <<envVars, file, run, prev, frame, bound, colors, y_pos, stats_y,
                 tech_y, features_y, stdout, exit>>

\* Mutant of PrintConfirmation: the message names the file without its
\* directory.
PrintConfirmationBaseName ==
  /\ At("print")
  /\ stdout' = Append(stdout, "Directory structure diagram saved to: directory_structure.png")
  /\ pc' = pc + 1
  /\ UNCHANGED <<envVars, file, run, prev, frame, bound, colors, y_pos, stats_y,
                 tech_y, features_y, fig, ops, exit>>

\* print("Directory structure diagram saved to: ...")
PrintConfirmation ==
  /\ At("print")
  /\ stdout' = Append(stdout, Stmt.s)
  /\ pc' = pc + 1
  /\ UNCHANGED <<envVars, file, run, prev, frame, bound, colors, y_pos, stats_y,
                 tech_y, features_y, fig, ops, exit>>

\* The end of the script: the process ends with status 0.
Exit ==
  /\ exit = <<>>
  /\ pc = Len(Program) + 1
  /\ exit' = <<0>>
  /\ UNCHANGED <<envVars, file, run, prev, pc, frame, bound, colors, y_pos,
                 stats_y, tech_y, features_y, fig, ops, stdout>>

\* The script is run again, in a new process, in the same environment: only
\* the filesystem carries over.
Rerun ==
  /\ exit # <<>>
  /\ run < MaxRuns
  /\ run' = run + 1
  /\ prev' = Append(prev, [ops |-> ops, stdout |-> stdout, exit |-> exit,
                           file |-> file])
  /\ pc' = 1
  /\ frame' = <<>>
  /\ bound' = {}
  /\ colors' = <<>>
  /\ y_pos' = 0 /\ stats_y' = 0 /\ tech_y' = 0 /\ features_y' = 0
  /\ fig' = NoFigure
  /\ ops' = <<>>
  /\ stdout' = <<>>
  /\ exit' = <<>>
  /\ UNCHANGED <<envVars, file>>

Next ==
  \/ Subplots
  \/ SetLim
  \/ AxisOff
  \/ Text
  \/ BindColors
  \/ DefDrawBox
  \/ Assign
  \/ AugAssign
  \/ DrawBoxCall
  \/ DrawBoxLine
  \/ DrawBoxReturn
  \/ Plot
  \/ TightLayout
  \/ SavefigOk
  \/ SavefigFail
  \/ Close
  \/ PrintConfirmation
  \/ Exit

NextRuns == Next \/ Rerun

\* One run of the script.
Spec == Init /\ [][Next]_vars

\* One run; the interpreter executes the next statement as long as there is one.
FairSpec == Spec /\ WF_vars(Next)

\* MaxRuns runs of the script, one after the other.
SpecRuns == Init /\ [][NextRuns]_vars

-----------------------------------------------------------------------------
\* What the properties below read off the state.

DrawOps == {"text", "add_patch", "plot"}
Idx(kind) == {i \in 1..Len(ops) : ops[i].op = kind}
\* The savefig call returned / raised.
Saved == \E i \in Idx("savefig") : ops[i].result = "ok"
SaveFailed == \E i \in Idx("savefig") : ops[i].result # "ok"

\* The draw_box calls made so far (by the line of the call), the patch each
\* added and the texts each has drawn, in order.
BoxCalls == {ops[i].call : i \in Idx("add_patch")}
PatchOf(c) == ops[CHOOSE i \in Idx("add_patch") : ops[i].call = c].args
TextsOf(c) == SelectSeq(ops, LAMBDA o : o.op = "text" /\ o.call = c)
StmtAt(c) == Program[CHOOSE k \in 1..Len(Program) : Program[k].line = c]
\* Number of newline-separated lines of a text: its newlines plus one.
NumLines(toks) == Cardinality({k \in 1..Len(toks) : toks[k] = NL}) + 1
InProgress(c) == frame # <<>> /\ frame[1].call = c
\* Comparison of rationals <<num, den>>, den > 0.
RatEq(a, b) == a[1] * b[2] = b[1] * a[2]
RatLt(a, b) == a[1] * b[2] < b[1] * a[2]
\* The point (px, py) lies on or inside the rectangle of patch b.
InBox(px, py, b) ==
  /\ b.x <= px /\ px <= b.x + b.width
  /\ b.y <= py /\ py <= b.y + b.height
\* Both endpoints of the line plotted at the given source line lie on or inside
\* the boxes of the draw_box calls from and to.
Anchored(line, from, to) ==
  \A i \in Idx("plot") :
    ops[i].line = line =>
      /\ InBox(ops[i].args.xs[1], ops[i].args.ys[1], PatchOf(from))
      /\ InBox(ops[i].args.xs[2], ops[i].args.ys[2], PatchOf(to))
\* Two patches' rectangles have disjoint interiors.
Disjoint(a, b) ==
  \/ a.x + a.width <= b.x \/ b.x + b.width <= a.x
  \/ a.y + a.height <= b.y \/ b.y + b.height <= a.y

-----------------------------------------------------------------------------
\* C1: the confirmation line is printed only after the image file has been
\* written (never before the save step, never in a run whose save failed), at
\* most once, and it is "Directory structure diagram saved to: " followed by
\* exactly the path string that was passed to savefig.
C1_ConfirmationAfterSave ==
  /\ Len(stdout) <= 1
  /\ stdout # <<>> =>
       /\ ~SaveFailed
       /\ file # <<>>
       /\ \E i \in Idx("savefig") :
            /\ ops[i].result = "ok"
            /\ file[1].path = ops[i].args.path
            /\ stdout[1] = "Directory structure diagram saved to: " \o ops[i].args.path

\* C1's case: the line has been printed after a successful save.
C1_Printed == Len(stdout) = 1 /\ Saved

\* C2: once the save step has failed the run is over, in failure: the exit
\* status is 1, nothing has been printed, the failed savefig is the last call
\* made (no close, no retry), the exit status is never 0, and no further step
\* is taken.
C2_SaveFailureIsFatal ==
  /\ [](SaveFailed =>
          /\ exit = <<1>>
          /\ stdout = <<>>
          /\ Cardinality(Idx("savefig")) = 1
          /\ ops[Len(ops)].op = "savefig"
          /\ Program[pc].op = "savefig")
  /\ [][SaveFailed => UNCHANGED vars]_vars

\* C2's case: the save has failed and the process has ended.
C2_FailedRun == SaveFailed /\ exit # <<>>

\* C3 as stated: the image is resolution x figure size in pixels, with one
\* resolution from subplots to savefig.
C3_OneResolutionTimesFigsize ==
  file # <<>> =>
    \A i \in Idx("savefig") :
      /\ ops[i].args.dpi = <<fig.dpi>>
      /\ file[1].size = <<fig.dpi * fig.figsize[1], fig.dpi * fig.figsize[2]>>

\* C3, amended: the surface is created at 100 dpi and 20 x 24 in, the save is
\* made at 150 dpi with a tight bounding box, and the image measures 150 dpi
\* times the tight bounding box (tenths of an inch here), not times the
\* figure size.
C3_SaveDpiTimesTightBox ==
  file # <<>> =>
    /\ fig.dpi = 100 /\ fig.figsize = <<20, 24>>
    /\ \A i \in Idx("savefig") :
         /\ ops[i].args.dpi = <<150>>
         /\ ops[i].args.bbox_inches = "tight"
    /\ 10 * file[1].size[1] = 150 * tightBox[1]
    /\ 10 * file[1].size[2] = 150 * tightBox[2]

\* C3's case: an image has been written whose tight box is not the figure.
C3_CroppedImageWritten == file # <<>> /\ Saved /\ tightBox # <<200, 240>>

\* C4: a second run in the same environment makes the same calls with the
\* same arguments in the same order as the first, and ends with the same
\* image at the same path, the same output and the same exit status.
C4_RunsIdentical ==
  run > 1 =>
    LET before == prev[run - 1]
    IN  /\ Len(ops) <= Len(before.ops)
        /\ ops = SubSeq(before.ops, 1, Len(ops))
        /\ exit # <<>> =>
             /\ ops = before.ops
             /\ stdout = before.stdout
             /\ exit = before.exit
             /\ file = before.file

\* C4's case: a second run has ended after writing the image again.
C4_SecondRunDone == run = 2 /\ exit = <<0>> /\ file # <<>> /\ Saved

\* C5: in every draw_box call, with box (x, y, width, height) and a text of n
\* lines, line i (0-based) is drawn at x + width/2 and at
\* y + height - (i+1) * height/(n+1): strictly inside the box's vertical span,
\* strictly below the line before it and height/(n+1) apart from it; line 0 is
\* bold at the call's font size, every later line normal at font size - 1.
C5_LinesEvenlySpaced ==
  \A c \in BoxCalls :
    LET b == PatchOf(c)
        t == TextsOf(c)
        n == NumLines(StmtAt(c).text)
        fontsize == StmtAt(c).fontsize
    IN  /\ Len(t) <= n
        /\ \A j \in 1..Len(t) :      \* j = i + 1
             LET a == t[j].args
             IN  /\ 2 * a.x[1] = a.x[2] * (2 * b.x + b.width)
                 /\ (n + 1) * a.y[1]
                      = a.y[2] * ((n + 1) * (b.y + b.height) - j * b.height)
                 /\ RatLt(<<b.y, 1>>, a.y)
                 /\ RatLt(a.y, <<b.y + b.height, 1>>)
                 /\ j > 1 =>
                      /\ RatLt(a.y, t[j - 1].args.y)
                      /\ RatEq(RatSub(t[j - 1].args.y, a.y), <<b.height, n + 1>>)
                 /\ a.fontweight = (IF j = 1 THEN "bold" ELSE "normal")
                 /\ a.fontsize = (IF j = 1 THEN fontsize ELSE fontsize - 1)

\* C5's case: a box of fourteen lines and a box with the empty text are both
\* fully labelled.
C5_LongAndEmptyTextDrawn ==
  /\ \E c \in BoxCalls : Len(TextsOf(c)) = 14
  /\ \E c \in BoxCalls : StmtAt(c).text = <<>> /\ Len(TextsOf(c)) = 1

\* C6: each connector line runs between the two boxes it is drawn for: the
\* line of 145 from the src/ box (call of line 61) to the qa/ box (65), the
\* line of 147 from the qa/ box to the tests/ box (78), the line of 149 from
\* the Agents box (69) to the src/ box.
C6_ConnectorsAnchored ==
  /\ Anchored(145, 61, 65)
  /\ Anchored(147, 65, 78)
  /\ Anchored(149, 69, 61)

\* What holds in every run, failed save or not: the surface is created once
\* and first of all, every draw comes before the save, the close comes after
\* a save that returned, and nothing is drawn after the close.
SurfaceOrder ==
  /\ Cardinality(Idx("subplots")) <= 1
  /\ ops # <<>> => ops[1].op = "subplots"
  /\ \A i \in 1..Len(ops) : \A s \in Idx("savefig") :
       ops[i].op \in DrawOps => i < s
  /\ \A k \in Idx("close") : \E s \in Idx("savefig") :
       s < k /\ ops[s].result = "ok"
  /\ \A i \in 1..Len(ops) : \A k \in Idx("close") :
       ops[i].op \in DrawOps => i < k
  /\ (fig.state = "closed") = (Idx("close") # {})

\* C7 as stated: the order above, and every run that has ended, one whose save
\* failed included, has released the surface by the close call.
C7_ClosedInEveryRun ==
  /\ SurfaceOrder
  /\ exit # <<>> => fig.state = "closed"

\* C7, amended: the order above; a run whose save returns goes on to release
\* the surface by the close call, and a run whose save fails never calls
\* close: its surface is still open when the process ends.
C7_ClosedAfterSave ==
  /\ []SurfaceOrder
  /\ [](SaveFailed => fig.state = "open")
  /\ [](exit = <<0>> => fig.state = "closed")
  /\ Saved ~> (fig.state = "closed")

\* C7's case: the image has been saved and the surface closed.
C7_SavedAndClosed == Saved /\ fig.state = "closed" /\ Idx("close") # {}

\* C8: every box drawn lies within the canvas set by set_xlim and set_ylim.
C8_BoxesInCanvas ==
  \A c \in BoxCalls :
    LET b == PatchOf(c)
    IN  /\ fig.xlim[1] <= b.x /\ b.x + b.width <= fig.xlim[2]
        /\ fig.ylim[1] <= b.y /\ b.y + b.height <= fig.ylim[2]

\* C9: the run is one linear pass (the statement index never goes back and
\* advances one at a time); every draw_box call runs with style 'round' and adds
\* a FancyBboxPatch, never a Rectangle; the calls a draw_box makes are one
\* add_patch followed directly by its text draws, as many as its text has
\* newline-separated lines once it has returned.
C9_RoundBoxesLinearPass ==
  /\ [][pc' = pc \/ pc' = pc + 1]_vars
  /\ [](frame # <<>> => frame[1].style = "round")
  /\ [](\A i \in Idx("add_patch") : ops[i].args.kind = "FancyBboxPatch")
  /\ [](\A p \in Idx("add_patch") :
          LET c == ops[p].call
              n == NumLines(StmtAt(c).text)
              m == Cardinality({i \in 1..Len(ops) : ops[i].call = c}) - 1
          IN  /\ Cardinality({i \in Idx("add_patch") : ops[i].call = c}) = 1
              /\ m <= n
              /\ ~InProgress(c) => m = n
              /\ \A i \in 1..Len(ops) :
                   ops[i].call = c /\ i # p =>
                     ops[i].op = "text" /\ p < i /\ i <= p + m)

\* C9's case: all thirteen draw_box calls have returned.
C9_AllBoxesDrawn == Cardinality(BoxCalls) = 13 /\ frame = <<>>

\* C10: no two boxes overlap (the rectangles of two different draw_box calls
\* have disjoint interiors), and the y_pos cursor only ever goes down:
\* 105, 97, 67, 47, 27.
C10_NoOverlapCursorDown ==
  /\ [](\A c1, c2 \in BoxCalls : c1 # c2 => Disjoint(PatchOf(c1), PatchOf(c2)))
  /\ []("y_pos" \in bound => y_pos \in {105, 97, 67, 47, 27})
  /\ [][y_pos' # y_pos /\ "y_pos" \in bound => y_pos' < y_pos]_vars

\* C10's case: the last box (Key Features, line 136) is drawn and the cursor
\* has made all its steps.
C10_LastBoxDrawn == 136 \in BoxCalls /\ y_pos = 27 /\ Cardinality(BoxCalls) = 13

=============================================================================
